---- MODULE Spec2Model ----
(***************************************************************************)
(* Model of the caribou build script: a driver that mirrors the grammar    *)
(* repository, runs the parser generator per manifest entry, bundles the   *)
(* generated files and renders the README table.                           *)
(*                                                                         *)
(* Two revisions of the script are modelled:                               *)
(*   "cached"    src/unnamed/part_001  (content-hash build cache)          *)
(*   "plain"     src/build.mjs         (no cache)                          *)
(* The variable `script` says which revision is checked out.               *)
(*                                                                         *)
(* The file system is state: the mirror (manifest and grammar sources),    *)
(* the generated files, the bundled artifacts, the cache file, the         *)
(* generator jar.  The generator, the bundler, git and the network are     *)
(* black boxes whose outcome is a nondeterministic choice.                 *)
(***************************************************************************)
EXTENDS Integers, Sequences, FiniteSets, TLC

\* ------------------------------------------------------------------ bounds

\* Longest manifest (grammars.json) explored.
MaxGrammars == 2

\* ------------------------------------------------------- the input universe

\* A relative path inside the mirror is <<directory, file name>>; the empty
\* tuple stands for JavaScript's null (no path).
NoPath == <<>>

\* A source location of the manifest: a raw.githubusercontent.com URL, or the
\* falsy value (field absent).
NoUrl == [host |-> "", branch |-> "", path |-> NoPath]

RawUrl(p) == [host |-> "raw.githubusercontent.com", branch |-> "master", path |-> p]

\* The manifest entries explored: a grammar with lexer and parser, a second
\* entry with the same display name in another directory (grammars-v4 lists
\* "ASL" twice), a lexer-only entry, an entry without any source, and an entry
\* whose parser URL names a file the repository does not hold.
Descriptors ==
  { [name |-> "A", lexer |-> RawUrl(<<"d1", "ALexer.g4">>), parser |-> RawUrl(<<"d1", "AParser.g4">>)],
    [name |-> "A", lexer |-> NoUrl, parser |-> RawUrl(<<"d2", "A.g4">>)],
    [name |-> "B", lexer |-> RawUrl(<<"d2", "BLexer.g4">>), parser |-> NoUrl],
    [name |-> "B", lexer |-> NoUrl, parser |-> NoUrl],
    [name |-> "B", lexer |-> NoUrl, parser |-> RawUrl(<<"d3", "B.g4">>)] }

\* The manifest paths with no file behind them.
DanglingPaths == {<<"d3", "B.g4">>}

Names == {d.name : d \in Descriptors}

SourcePaths == {d.lexer.path : d \in Descriptors} \cup {d.parser.path : d \in Descriptors}

Dirs == {p[1] : p \in SourcePaths \ {NoPath}}

RECURSIVE SeqsUpTo(_, _)
SeqsUpTo(S, n) ==
  IF n = 0 THEN {<<>>}
  ELSE LET shorter == SeqsUpTo(S, n - 1)
       IN  shorter \cup {Append(s, x) : s \in {t \in shorter : Len(t) = n - 1}, x \in S}

Manifests == SeqsUpTo(Descriptors, MaxGrammars)

\* Contents of a grammar source file: 0 is "no such file".
Contents == {1, 2}

\* ------------------------------------------------------------ JS helpers

Put(f, k, v) == [x \in (DOMAIN f) \cup {k} |-> IF x = k THEN v ELSE f[x]]

\* crypto.createHash("sha256").update(content).digest("hex"): injective on the
\* contents explored.
Sha256Hex(c) == IF c = 1 THEN "h1" ELSE "h2"

\* extractPathFromUrl: the text after .../(main|master)/ of a raw URL.
ExtractOk(u) == u.host = "raw.githubusercontent.com" /\ u.branch \in {"main", "master"}

ExtractPathFromUrl(u) == u.path

Truthy(u) == u # NoUrl

\* path.dirname of a relative path.
Dirname(p) == p[1]

\* String.prototype.toLowerCase on the component names.
ToLowerCase(s) == IF s = "Lexer" THEN "lexer" ELSE IF s = "Parser" THEN "parser" ELSE s

\* ------------------------------------------------------------ cache values

\* A cache entry {buildTime, files}; hasFiles = FALSE is an object without a
\* files mapping.
Entry(files) == [hasFiles |-> TRUE, files |-> files]

EntryNoFiles == [hasFiles |-> FALSE, files |-> <<>>]

\* The value held in `cache`: a plain object (a mapping from grammar name to
\* entry) or the JSON value null.
Obj(m) == [kind |-> "obj", map |-> m]

JNull == [kind |-> "null", map |-> <<>>]

\* The cache file: absent, text that is not JSON, or the JSON text of a value.
FileAbsent == [kind |-> "absent", value |-> Obj(<<>>)]

FileGarbage == [kind |-> "garbage", value |-> Obj(<<>>)]

\* JSON.stringify(cache, null, 2)
JsonStringify(v) == [kind |-> "json", value |-> v]

\* JSON.parse(content)
JsonParses(file) == file.kind = "json"

JsonParse(file) == file.value

\* loadCache: the parsed file when it is there and parses, {} otherwise.
LoadCache(file) ==
  IF file.kind # "absent" /\ JsonParses(file) THEN JsonParse(file) ELSE Obj(<<>>)

\* ------------------------------------------------------------ grammar view

LexerPath(g) == IF Truthy(g.lexer) THEN ExtractPathFromUrl(g.lexer) ELSE NoPath

ParserPath(g) == IF Truthy(g.parser) THEN ExtractPathFromUrl(g.parser) ELSE NoPath

\* No component is declared.
FileTypes_none(g) == <<>>

\* fileTypes, in push order.
FileTypes(g) ==
  (IF LexerPath(g) # NoPath THEN <<"Lexer">> ELSE <<>>)
  \o (IF ParserPath(g) # NoPath THEN <<"Parser">> ELSE <<>>)

GrammarPaths(g) == {LexerPath(g), ParserPath(g)} \ {NoPath}

\* cwd = GRAMMARS_REPO_DIR / dirname(lexerPath || parserPath)
CwdDir(g) == Dirname(IF LexerPath(g) # NoPath THEN LexerPath(g) ELSE ParserPath(g))

\* outputDir = OUTPUT_DIR / dirname(parserPath); path.dirname(null) throws.
OutputDirThrows(g) == ParserPath(g) = NoPath

OutputDir(g) == Dirname(ParserPath(g))

\* path.join(outputDir, `${type.toLowerCase()}.js`)
OutFile(g, type) == <<OutputDir(g), ToLowerCase(type)>>

\* path.join(cwd, `${grammarName}${type}.js`)
MainFile(g, type) == <<CwdDir(g), g.name, type>>

OutFiles == {<<d, t>> : d \in Dirs, t \in {"lexer", "parser"}}

GenFiles == {<<d, n, t>> : d \in Dirs, n \in Names, t \in {"Lexer", "Parser"}}

\* A bundled artifact: which generated file it was bundled from.  NoFile: no
\* such file.
NoFile == [name |-> "", type |-> "", hashes |-> <<>>]

Bundle(g, type, genContent) == [name |-> g.name, type |-> type, hashes |-> genContent]

\* ------------------------------------------------------------------ state

VARIABLES
  script,      \* which revision of the script is checked out
  pc,          \* position of the running process; "idle": no process
  mode,        \* process.argv[2] of the current (or last) process
  exitCode,    \* exit status of the last process; -1 none yet, 137 killed
  mirror,      \* GRAMMARS_REPO_DIR/.git exists
  manifest,    \* grammars.json of the mirror
  src,         \* grammar source files of the mirror: path -> contents, 0 absent
  gen,         \* generated files in the mirror: file -> digests they were generated from
  dist,        \* bundled artifacts under OUTPUT_DIR: file -> what was bundled
  cacheDisk,   \* CACHE_FILE
  jar,         \* ANTLR_JAR: "absent", "partial" (an unfinished download), "complete"
  cache,       \* the process's cache object
  fileHashes,  \* processGrammar's fileHashes
  idx,         \* index of the grammar the for-loop is at
  tIdx,        \* index into fileTypes of the bundling loop
  outcome,     \* console log per grammar: "none", "hit" (Using cached build), "built"
  genCalls,    \* generator subprocesses started by this process
  bundleCalls, \* rolldown.build calls made by this process
  fsWrites,    \* kinds of file-system writes made by this process
  usage,       \* the usage message was printed
  saved,       \* grammars whose loop iteration (with its saveCache) has finished
  clean,       \* the last full build succeeded and nothing was changed since
  rerun,       \* this process is a full build started in a clean state
  text,        \* the texts of a README rendering: template, grammars, README.md
  dl,          \* one call of download: the server, the requests made, the outcome
  rows,        \* one rendering of the documentation table
  scan         \* the grammar loop of one full build: its asynchronous operations

fsVars == <<mirror, manifest, src, gen, dist, cacheDisk, jar>>

localVars == <<cache, fileHashes, idx, tIdx>>

obsVars == <<outcome, genCalls, bundleCalls, fsWrites, usage, saved>>

vars == <<script, pc, mode, exitCode, mirror, manifest, src, gen, dist, cacheDisk, jar,
          cache, fileHashes, idx, tIdx, outcome, genCalls, bundleCalls, fsWrites,
          usage, saved, clean, rerun, text, dl, rows, scan>>

\* The variables of the build process and its file system.
procVars == <<script, pc, mode, exitCode, mirror, manifest, src, gen, dist, cacheDisk, jar,
              cache, fileHashes, idx, tIdx, outcome, genCalls, bundleCalls, fsWrites,
              usage, saved, clean, rerun>>

\* The variables of the parts looked at on their own.
auxVars == <<text, dl, rows, scan>>

\* No README rendering is looked at.
NoText == [template |-> <<>>, grammars |-> <<>>, written |-> FALSE, readme |-> <<>>]

InitProcess ==
  /\ script \in {"cached", "plain"}
  /\ pc = "idle"
  /\ mode = "none"
  /\ exitCode = -1
  /\ mirror = FALSE
  /\ manifest = <<>>
  /\ src = [p \in SourcePaths \ {NoPath} |-> 0]
  /\ gen = [f \in GenFiles |-> <<>>]
  /\ dist = [f \in OutFiles |-> NoFile]
  /\ cacheDisk = FileAbsent
  /\ jar = "absent"
  /\ cache = Obj(<<>>)
  /\ fileHashes = <<>>
  /\ idx = 0
  /\ tIdx = 0
  /\ outcome = <<>>
  /\ genCalls = 0
  /\ bundleCalls = 0
  /\ fsWrites = {}
  /\ usage = FALSE
  /\ saved = 0
  /\ clean = FALSE
  /\ rerun = FALSE

\* No download is looked at.
NoDownload ==
  [server |-> <<>>, requested |-> <<>>, last |-> 0, stream |-> "none",
   settled |-> "pending", netError |-> FALSE]

\* No table rendering of the metadata-scan revisions is looked at.
NoRows ==
  [variant |-> "none", grammars |-> <<>>, dirs |-> <<>>, pending |-> {}, results |-> <<>>,
   order |-> <<>>, table |-> <<>>, phase |-> "none"]

\* No process of a metadata-scan revision is looked at.
NoScan ==
  [variant |-> "none", n |-> 0, mkdirOk |-> <<>>, valid |-> <<>>, genOk |-> <<>>, next |-> 1,
   calls |-> <<>>, mkdir |-> <<>>, genAt |-> <<>>, running |-> {}, log |-> <<>>,
   loop |-> "none"]

Init == InitProcess /\ text = NoText /\ dl = NoDownload /\ rows = NoRows /\ scan = NoScan

cur == manifest[idx]

\* The process ends with status `code`; its locals are gone.
Exit(code) ==
  /\ pc' = "idle"
  /\ exitCode' = code
  /\ cache' = Obj(<<>>)
  /\ fileHashes' = <<>>
  /\ tIdx' = 0
  /\ UNCHANGED auxVars

\* The catch handler ends the process with status 0.
CatchExitCode_success == 1 - 1

\* The status process.exit is called with in the catch handler of build().
CatchExitCode == 1

\* An exception reaches build().catch (cached) or is an unhandled rejection
\* (plain): the process exits with a failure status.
Throw ==
  /\ Exit(CatchExitCode)
  /\ clean' = FALSE
  /\ UNCHANGED <<script, mode, idx, rerun>>

Goto(l) == pc' = l /\ UNCHANGED <<script, mode, exitCode, clean, rerun>> /\ UNCHANGED auxVars

\* ------------------------------------------------------- starting a process

\* Values of process.argv[2]: the two modes, a missing argument, a word that
\* is no mode, and a word that names a method of Object.prototype.
Modes == {"dist", "readme", "undefined", "lint", "toString"}

StartRun(m) ==
  /\ pc = "idle"
  /\ pc' = "build"
  /\ mode' = m
  /\ exitCode' = -1
  /\ idx' = 0
  /\ outcome' = <<>>
  /\ genCalls' = 0
  /\ bundleCalls' = 0
  /\ fsWrites' = {}
  /\ usage' = FALSE
  /\ saved' = 0
  /\ rerun' = (m = "dist" /\ clean)
  /\ UNCHANGED <<script, clean, cache, fileHashes, tIdx>>
  /\ UNCHANGED auxVars
  /\ UNCHANGED fsVars

\* What the last process printed and did is no longer looked at.
Forget ==
  /\ mode' = "none"
  /\ idx' = 0
  /\ outcome' = <<>>
  /\ genCalls' = 0
  /\ bundleCalls' = 0
  /\ fsWrites' = {}
  /\ usage' = FALSE
  /\ rerun' = FALSE

\* The process is terminated from outside, at any point; in the middle of the
\* jar download the unfinished file stays at the destination.
Kill ==
  /\ pc # "idle"
  /\ Exit(137)
  /\ clean' = FALSE
  /\ Forget
  /\ UNCHANGED <<script, saved>>
  /\ UNCHANGED fsVars

\* ---------------------------------------------- cached revision: build()

\* switch (mode): "dist" and "readme" are the cases, everything else prints
\* the usage and exits with status 1.
Build ==
  /\ script = "cached"
  /\ pc = "build"
  /\ IF mode = "dist" THEN Goto("bd_setup") /\ UNCHANGED <<usage, cache, fileHashes, tIdx>>
     ELSE IF mode = "readme" THEN Goto("rd_repo") /\ UNCHANGED <<usage, cache, fileHashes, tIdx>>
     ELSE /\ usage' = TRUE
          /\ Exit(1)
          /\ UNCHANGED <<script, mode, clean, rerun>>
  /\ UNCHANGED <<idx, outcome, genCalls, bundleCalls, fsWrites, saved>>
  /\ UNCHANGED fsVars

\* buildDist up to the jar: the two mkdir calls and loadCache.
BD_Setup ==
  /\ pc = "bd_setup"
  /\ fsWrites' = fsWrites \cup {"dir"}
  /\ cache' = LoadCache(cacheDisk)
  /\ Goto("bd_jar")
  /\ UNCHANGED <<fileHashes, idx, tIdx>>
  /\ UNCHANGED <<outcome, genCalls, bundleCalls, usage, saved>>
  /\ UNCHANGED fsVars

\* canAccess(ANTLR_JAR)
JarExists == jar # "absent"

\* buildDist step 2: reuse the jar when the file is there; otherwise request
\* it: the request fails or ends in a status other than 200 (throws, no
\* file), or the response is piped into a new file at the destination.
BD_Jar ==
  /\ pc = "bd_jar"
  /\ \/ /\ JarExists
        /\ Goto("bd_repo")
        /\ UNCHANGED <<jar, fsWrites>>
        /\ UNCHANGED localVars
     \/ /\ ~JarExists
        /\ jar' = "partial"
        /\ fsWrites' = fsWrites \cup {"jar"}
        /\ Goto("bd_download")
        /\ UNCHANGED localVars
     \/ /\ ~JarExists
        /\ Throw
        /\ UNCHANGED <<jar, fsWrites>>
  /\ UNCHANGED <<mirror, manifest, src, gen, dist, cacheDisk>>
  /\ UNCHANGED <<outcome, genCalls, bundleCalls, usage, saved>>

\* downloadFile, the file stream: "finish" resolves; "error" unlinks the
\* destination and rejects.
BD_Download ==
  /\ pc = "bd_download"
  /\ \/ /\ jar' = "complete"
        /\ Goto("bd_repo")
        /\ UNCHANGED localVars
     \/ /\ jar' = "absent"
        /\ Throw
  /\ UNCHANGED <<mirror, manifest, src, gen, dist, cacheDisk>>
  /\ UNCHANGED obsVars

\* What a fresh clone holds: a manifest and the grammar sources it names.
CloneSources(m) ==
  [p \in SourcePaths \ {NoPath} |->
     IF p \notin DanglingPaths /\ \E i \in 1..Len(m) : p \in GrammarPaths(m[i]) THEN 1 ELSE 0]

\* Where updateGrammarsRepo returns to.
AfterRepo(l) == IF l = "bd_repo" THEN "bd_manifest" ELSE "rd_write"

\* updateGrammarsRepo: git fetch in an existing mirror (the working tree is
\* left alone), mkdir and git clone otherwise; a failing git throws.
UpdateGrammarsRepo ==
  /\ pc \in {"bd_repo", "rd_repo"}
  /\ \/ /\ mirror
        /\ fsWrites' = fsWrites \cup {"mirror"}
        /\ Goto(AfterRepo(pc))
        /\ UNCHANGED <<mirror, manifest, src>>
        /\ UNCHANGED localVars
     \/ /\ ~mirror
        /\ \E m \in Manifests :
             /\ manifest' = m
             /\ src' = CloneSources(m)
        /\ mirror' = TRUE
        /\ fsWrites' = fsWrites \cup {"dir", "mirror"}
        /\ Goto(AfterRepo(pc))
        /\ UNCHANGED localVars
     \/ /\ Throw
        /\ fsWrites' = IF mirror THEN fsWrites ELSE fsWrites \cup {"dir"}
        /\ UNCHANGED <<mirror, manifest, src>>
  /\ UNCHANGED <<gen, dist, cacheDisk, jar>>
  /\ UNCHANGED <<outcome, genCalls, bundleCalls, usage, saved>>

\* buildDist step 4: read and parse grammars.json.
BD_ReadManifest ==
  /\ pc = "bd_manifest"
  /\ outcome' = [i \in 1..Len(manifest) |-> "none"]
  /\ Goto("bd_loop")
  /\ UNCHANGED <<genCalls, bundleCalls, fsWrites, usage, saved>>
  /\ UNCHANGED localVars
  /\ UNCHANGED fsVars

\* for (const grammar of grammars): the next grammar, or the steps after the
\* loop.
BD_Loop ==
  /\ pc = "bd_loop"
  /\ IF idx < Len(manifest)
       THEN idx' = idx + 1 /\ Goto("pg_paths")
       ELSE idx' = idx /\ Goto("bd_pkg")
  /\ UNCHANGED <<cache, fileHashes, tIdx>>
  /\ UNCHANGED obsVars
  /\ UNCHANGED fsVars

\* ------------------------------------- cached revision: processGrammar

\* Lines 164-199: the paths from the URLs, the digests of the source files,
\* cwd and outputDir.  Throws when the entry has no source, when a URL is not
\* a raw URL, when a source file cannot be read, and (path.dirname(null)) when
\* the entry has no parser.
PG_PathsThrows(g) ==
  \/ ~Truthy(g.lexer) /\ ~Truthy(g.parser)
  \/ Truthy(g.lexer) /\ ~ExtractOk(g.lexer)
  \/ Truthy(g.parser) /\ ~ExtractOk(g.parser)
  \/ \E p \in GrammarPaths(g) : src[p] = 0
  \/ OutputDirThrows(g)

PG_Paths ==
  /\ pc = "pg_paths"
  /\ IF PG_PathsThrows(cur)
       THEN Throw /\ UNCHANGED obsVars
       ELSE /\ fileHashes' = [p \in GrammarPaths(cur) |-> Sha256Hex(src[p])]
            /\ Goto("pg_check")
            /\ UNCHANGED <<cache, idx, tIdx>>
            /\ UNCHANGED obsVars
  /\ UNCHANGED fsVars

\* outputFilesExist.every(Boolean)
OutputFilesExist(g) ==
  \A i \in 1..Len(FileTypes(g)) : dist[OutFile(g, FileTypes(g)[i])] # NoFile

\* The comparison of the digests never succeeds.
HashesMatch_never(entry, hashes) == FALSE

\* hashesMatch: every fresh digest is the one the entry records for its path.
HashesMatch(entry, hashes) ==
  \A p \in DOMAIN hashes : p \in DOMAIN entry.files /\ entry.files[p] = hashes[p]

\* The condition of the early return at lines 214-217.
CacheHit(g, c, hashes) ==
  /\ g.name \in DOMAIN c.map
  /\ OutputFilesExist(g)
  /\ HashesMatch(c.map[g.name], hashes)

\* Lines 201-218.  cache[cacheKey] throws on null; an entry without a files
\* mapping throws in hashesMatch; a hit logs and returns.
PG_CacheCheck ==
  /\ pc = "pg_check"
  /\ IF \/ cache.kind = "null"
        \/ cur.name \in DOMAIN cache.map /\ ~cache.map[cur.name].hasFiles
       THEN Throw /\ UNCHANGED obsVars
       ELSE /\ IF CacheHit(cur, cache, fileHashes)
                 THEN /\ outcome' = [outcome EXCEPT ![idx] = "hit"]
                      /\ Goto("save_open")
                 ELSE /\ outcome' = outcome
                      /\ Goto("pg_mkdir")
            /\ UNCHANGED localVars
            /\ UNCHANGED <<genCalls, bundleCalls, fsWrites, usage, saved>>
  /\ UNCHANGED fsVars

\* Line 221: mkdir outputDir, which may fail.
PG_Mkdir ==
  /\ pc = "pg_mkdir"
  /\ \/ /\ fsWrites' = fsWrites \cup {"dir"}
        /\ Goto("pg_generate")
        /\ UNCHANGED localVars
     \/ /\ Throw
        /\ UNCHANGED fsWrites
  /\ UNCHANGED <<outcome, genCalls, bundleCalls, usage, saved>>
  /\ UNCHANGED fsVars

\* What a generator run that exits 0 may have written: the expected file of
\* every component, or none of them.
GeneratorOutputs(g) ==
  {{MainFile(g, FileTypes(g)[i]) : i \in 1..Len(FileTypes(g))}, {}}

\* Lines 225-243: the generator subprocess and the copy out of JavaScript/.
\* It exits non-zero (throws), or exits 0 having written the files the
\* bundling loop will look for, or exits 0 having written none of them (the
\* grammar declares another name than the manifest).
PG_Generate ==
  /\ pc = "pg_generate"
  /\ genCalls' = genCalls + 1
  /\ \/ /\ Throw
        /\ UNCHANGED <<gen, fsWrites>>
     \/ \E produced \in GeneratorOutputs(cur) :
          /\ gen' = [f \in GenFiles |-> IF f \in produced THEN fileHashes ELSE gen[f]]
          /\ fsWrites' = fsWrites \cup {"gen"}
          /\ tIdx' = 1
          /\ Goto("pg_bundle")
          /\ UNCHANGED <<cache, fileHashes, idx>>
  /\ UNCHANGED <<mirror, manifest, src, dist, cacheDisk, jar>>
  /\ UNCHANGED <<outcome, bundleCalls, usage, saved>>

\* Lines 246-265: one round of the bundling loop.  A missing generated file
\* throws; rolldown.build writes the artifact or throws.
PG_Bundle ==
  /\ pc = "pg_bundle"
  /\ IF tIdx > Len(FileTypes(cur))
       THEN /\ Goto("pg_update")
            /\ UNCHANGED <<dist, bundleCalls, fsWrites>>
            /\ UNCHANGED localVars
       ELSE LET type == FileTypes(cur)[tIdx] IN
            IF gen[MainFile(cur, type)] = <<>>
              THEN Throw /\ UNCHANGED <<dist, bundleCalls, fsWrites>>
              ELSE /\ bundleCalls' = bundleCalls + 1
                   /\ \/ /\ dist' = [dist EXCEPT ![OutFile(cur, type)] =
                                        Bundle(cur, type, gen[MainFile(cur, type)])]
                         /\ fsWrites' = fsWrites \cup {"artifact"}
                         /\ tIdx' = tIdx + 1
                         /\ Goto("pg_bundle")
                         /\ UNCHANGED <<cache, fileHashes, idx>>
                      \/ /\ Throw
                         /\ UNCHANGED <<dist, fsWrites>>
  /\ UNCHANGED <<mirror, manifest, src, gen, cacheDisk, jar>>
  /\ UNCHANGED <<outcome, genCalls, usage, saved>>

\* Lines 268-273: cache[cacheKey] = {buildTime, files: fileHashes}.
PG_UpdateCache ==
  /\ pc = "pg_update"
  /\ cache' = Obj(Put(cache.map, cur.name, Entry(fileHashes)))
  /\ outcome' = [outcome EXCEPT ![idx] = "built"]
  /\ Goto("save_open")
  /\ UNCHANGED <<fileHashes, idx, tIdx>>
  /\ UNCHANGED <<genCalls, bundleCalls, fsWrites, usage, saved>>
  /\ UNCHANGED fsVars

\* saveCache, first half: fs.writeFile opens CACHE_FILE for writing, which
\* truncates it; until the text is written the file holds a prefix of it.
SaveOpen ==
  /\ pc = "save_open"
  /\ cacheDisk' = FileGarbage
  /\ fsWrites' = fsWrites \cup {"cache"}
  /\ Goto("save_write")
  /\ UNCHANGED <<mirror, manifest, src, gen, dist, jar>>
  /\ UNCHANGED <<outcome, genCalls, bundleCalls, usage, saved>>
  /\ UNCHANGED localVars

\* saveCache, second half: the whole text is in the file; the loop iteration
\* is over.
SaveWrite ==
  /\ pc = "save_write"
  /\ cacheDisk' = JsonStringify(cache)
  /\ saved' = idx
  /\ Goto("bd_loop")
  /\ UNCHANGED <<mirror, manifest, src, gen, dist, jar>>
  /\ UNCHANGED <<outcome, genCalls, bundleCalls, fsWrites, usage>>
  /\ UNCHANGED localVars

\* buildDist step 6: copy package.json into dist.
BD_Pkg ==
  /\ pc = "bd_pkg"
  /\ fsWrites' = fsWrites \cup {"pkg"}
  /\ Goto("bd_readme")
  /\ UNCHANGED <<outcome, genCalls, bundleCalls, usage, saved>>
  /\ UNCHANGED localVars
  /\ UNCHANGED fsVars

\* The table is rendered whatever the entries are.
TableThrows_never(m) == FALSE

\* generateGrammarTable calls extractPathFromUrl(lexer || parser) per entry,
\* which throws on an entry without a source and on a URL that is no raw URL.
TableThrows(m) ==
  \E i \in 1..Len(m) :
    LET u == IF Truthy(m[i].lexer) THEN m[i].lexer ELSE m[i].parser
    IN  ~Truthy(u) \/ ~ExtractOk(u)

\* populateREADME (the template is part of the repository and is there):
\* read grammars.json when no list was passed, render, write README.md.
\* In mode "readme" build() returns after it and the process exits with 0.
PopulateREADME ==
  /\ pc \in {"bd_readme", "rd_write"}
  /\ IF TableThrows(manifest)
       THEN Throw /\ UNCHANGED fsWrites
       ELSE /\ fsWrites' = fsWrites \cup {"README"}
            /\ IF pc = "bd_readme"
                 THEN Goto("bd_copy") /\ UNCHANGED <<cache, fileHashes, tIdx>>
                 ELSE Exit(0) /\ UNCHANGED <<script, mode, clean, rerun>>
            /\ idx' = idx
  /\ UNCHANGED <<outcome, genCalls, bundleCalls, usage, saved>>
  /\ UNCHANGED fsVars

\* buildDist step 7, second half: copy README.md into dist; buildDist and
\* build return and the process exits with 0.
BD_Copy ==
  /\ pc = "bd_copy"
  /\ fsWrites' = fsWrites \cup {"distREADME"}
  /\ Exit(0)
  /\ clean' = TRUE
  /\ UNCHANGED <<script, mode, idx, rerun>>
  /\ UNCHANGED <<outcome, genCalls, bundleCalls, usage, saved>>
  /\ UNCHANGED fsVars

\* ------------------------------------------- plain revision (src/build.mjs)

\* Property names every object inherits from Object.prototype (the one
\* explored: a method).
ObjectPrototypeMethods == {"toString"}

\* commands[mode] for commands = { dist, readme }: an own property, an
\* inherited one, or undefined.
CommandsLookup(m) ==
  IF m \in {"dist", "readme"} THEN "own"
  ELSE IF m \in ObjectPrototypeMethods THEN "inherited"
  ELSE "undefined"

\* Lines 201-209: if (!commands[mode]) usage, exit(1); commands[mode]().
\* An inherited method is truthy: it is called, does nothing, and the process
\* ends with status 0.
P_Commands ==
  /\ script = "plain"
  /\ pc = "build"
  /\ LET found == CommandsLookup(mode) IN
     IF found = "undefined"
       THEN /\ usage' = TRUE
            /\ Exit(1)
            /\ UNCHANGED <<script, mode, clean, rerun>>
       ELSE IF found = "own"
         THEN Goto("sd_mkdir") /\ UNCHANGED <<usage, cache, fileHashes, tIdx>>
         ELSE /\ usage' = usage
              /\ Exit(0)
              /\ UNCHANGED <<script, mode, clean, rerun>>
  /\ UNCHANGED <<idx, outcome, genCalls, bundleCalls, fsWrites, saved>>
  /\ UNCHANGED fsVars

\* setupDependencies, lines 64-65.
SD_Mkdir ==
  /\ pc = "sd_mkdir"
  /\ fsWrites' = fsWrites \cup {"dir"}
  /\ Goto("sd_jar")
  /\ UNCHANGED <<outcome, genCalls, bundleCalls, usage, saved>>
  /\ UNCHANGED localVars
  /\ UNCHANGED fsVars

\* setupDependencies, lines 67-70 with download's request.
SD_Jar ==
  /\ pc = "sd_jar"
  /\ \/ /\ JarExists
        /\ Goto("sd_repo")
        /\ UNCHANGED <<jar, fsWrites>>
        /\ UNCHANGED localVars
     \/ /\ ~JarExists
        /\ jar' = "partial"
        /\ fsWrites' = fsWrites \cup {"jar"}
        /\ Goto("sd_download")
        /\ UNCHANGED localVars
     \/ /\ ~JarExists
        /\ Throw
        /\ UNCHANGED <<jar, fsWrites>>
  /\ UNCHANGED <<mirror, manifest, src, gen, dist, cacheDisk>>
  /\ UNCHANGED <<outcome, genCalls, bundleCalls, usage, saved>>

\* download, the file stream: "finish" resolves; "error" rejects and leaves
\* the file as it is.
SD_Download ==
  /\ pc = "sd_download"
  /\ \/ /\ jar' = "complete"
        /\ Goto("sd_repo")
        /\ UNCHANGED localVars
     \/ /\ jar' = jar
        /\ Throw
  /\ UNCHANGED <<mirror, manifest, src, gen, dist, cacheDisk>>
  /\ UNCHANGED obsVars

\* setupDependencies, lines 72-84: git clone without a mirror, git fetch with
\* one.
SD_Repo ==
  /\ pc = "sd_repo"
  /\ \/ /\ mirror
        /\ fsWrites' = fsWrites \cup {"mirror"}
        /\ Goto("p_manifest")
        /\ UNCHANGED <<mirror, manifest, src>>
        /\ UNCHANGED localVars
     \/ /\ ~mirror
        /\ \E m \in Manifests :
             /\ manifest' = m
             /\ src' = CloneSources(m)
        /\ mirror' = TRUE
        /\ fsWrites' = fsWrites \cup {"mirror"}
        /\ Goto("p_manifest")
        /\ UNCHANGED localVars
     \/ /\ Throw
        /\ UNCHANGED <<mirror, manifest, src, fsWrites>>
  /\ UNCHANGED <<gen, dist, cacheDisk, jar>>
  /\ UNCHANGED <<outcome, genCalls, bundleCalls, usage, saved>>

\* Mode "readme" goes on like mode "dist".
AfterManifest_dist(m) == "p_loop"

\* Where a mode goes once grammars.json is parsed.
AfterManifest(m) == IF m = "dist" THEN "p_loop" ELSE "p_readme"

\* dist, lines 172-175, and readme, lines 194-196.
P_ReadManifest ==
  /\ pc = "p_manifest"
  /\ outcome' = [i \in 1..Len(manifest) |-> "none"]
  /\ Goto(AfterManifest(mode))
  /\ UNCHANGED <<genCalls, bundleCalls, fsWrites, usage, saved>>
  /\ UNCHANGED localVars
  /\ UNCHANGED fsVars

\* dist, lines 177-179.
P_Loop ==
  /\ pc = "p_loop"
  /\ IF idx < Len(manifest)
       THEN idx' = idx + 1 /\ Goto("pp_paths")
       ELSE idx' = idx /\ Goto("p_pkg")
  /\ UNCHANGED <<cache, fileHashes, tIdx>>
  /\ UNCHANGED obsVars
  /\ UNCHANGED fsVars

\* Object.keys(paths), in insertion order.
PathKeys(g) ==
  (IF Truthy(g.lexer) THEN <<"lexer">> ELSE <<>>)
  \o (IF Truthy(g.parser) THEN <<"parser">> ELSE <<>>)

\* Lines 90-95: extractPath throws on a URL that is no raw URL, and
\* path.dirname(undefined) throws when the entry has no source.
PP_PathsThrows(g) ==
  \/ Truthy(g.lexer) /\ ~ExtractOk(g.lexer)
  \/ Truthy(g.parser) /\ ~ExtractOk(g.parser)
  \/ ~Truthy(g.lexer) /\ ~Truthy(g.parser)

\* processGrammar, lines 87-101: the paths, base, cwd, outputDir and the
\* mkdir of outputDir (which may fail).
PP_Paths ==
  /\ pc = "pp_paths"
  /\ \/ /\ ~PP_PathsThrows(cur)
        /\ fsWrites' = fsWrites \cup {"dir"}
        /\ Goto("pp_generate")
        /\ UNCHANGED localVars
     \/ /\ Throw
        /\ UNCHANGED fsWrites
  /\ UNCHANGED <<outcome, genCalls, bundleCalls, usage, saved>>
  /\ UNCHANGED fsVars

\* The digests of the sources the generator reads.
SourceDigests(g) == [p \in GrammarPaths(g) |-> Sha256Hex(src[p])]

\* processGrammar, lines 104-123: the generator subprocess and the copy out
\* of JavaScript/.  Without its source files the generator fails.
PP_Generate ==
  /\ pc = "pp_generate"
  /\ genCalls' = genCalls + 1
  /\ \/ /\ Throw
        /\ UNCHANGED <<gen, fsWrites>>
     \/ /\ \A p \in GrammarPaths(cur) : src[p] # 0
        /\ \E produced \in GeneratorOutputs(cur) :
             gen' = [f \in GenFiles |-> IF f \in produced THEN SourceDigests(cur) ELSE gen[f]]
        /\ fsWrites' = fsWrites \cup {"gen"}
        /\ tIdx' = 1
        /\ Goto("pp_bundle")
        /\ UNCHANGED <<cache, fileHashes, idx>>
  /\ UNCHANGED <<mirror, manifest, src, dist, cacheDisk, jar>>
  /\ UNCHANGED <<outcome, bundleCalls, usage, saved>>

\* fs.glob(`*${type}.js`, { cwd }): the generated files in cwd whose name ends
\* with the key.  The match ignores case on macOS and Windows and not
\* elsewhere; the generated names end in "Lexer.js" and "Parser.js".
GlobMatches(dir, key, nocase) ==
  {f \in GenFiles : f[1] = dir /\ gen[f] # <<>> /\ nocase /\ ToLowerCase(f[3]) = key}

\* processGrammar, lines 126-139: one round of the bundling loop.  Without a
\* match path.join(cwd, undefined) throws; rolldown.build writes the artifact
\* or throws.
PP_Bundle ==
  /\ pc = "pp_bundle"
  /\ IF tIdx > Len(PathKeys(cur))
       THEN /\ outcome' = [outcome EXCEPT ![idx] = "built"]
            /\ Goto("p_loop")
            /\ UNCHANGED <<dist, bundleCalls, fsWrites>>
            /\ UNCHANGED localVars
       ELSE /\ outcome' = outcome
            /\ \E nocase \in BOOLEAN :
                 LET key == PathKeys(cur)[tIdx]
                     found == GlobMatches(CwdDir(cur), key, nocase)
                 IN  \/ /\ found = {}
                        /\ Throw
                        /\ UNCHANGED <<dist, bundleCalls, fsWrites>>
                     \/ /\ bundleCalls' = bundleCalls + 1
                        /\ \E f \in found :
                             dist' = [dist EXCEPT ![<<CwdDir(cur), ToLowerCase(key)>>] =
                                        [name |-> f[2], type |-> f[3], hashes |-> gen[f]]]
                        /\ fsWrites' = fsWrites \cup {"artifact"}
                        /\ tIdx' = tIdx + 1
                        /\ Goto("pp_bundle")
                        /\ UNCHANGED <<cache, fileHashes, idx>>
                     \/ /\ found # {}
                        /\ bundleCalls' = bundleCalls + 1
                        /\ Throw
                        /\ UNCHANGED <<dist, fsWrites>>
  /\ UNCHANGED <<mirror, manifest, src, gen, cacheDisk, jar>>
  /\ UNCHANGED <<genCalls, usage, saved>>

\* dist, lines 181-184: copy package.json into dist.
P_Pkg ==
  /\ pc = "p_pkg"
  /\ fsWrites' = fsWrites \cup {"pkg"}
  /\ Goto("p_readme")
  /\ UNCHANGED <<outcome, genCalls, bundleCalls, usage, saved>>
  /\ UNCHANGED localVars
  /\ UNCHANGED fsVars

\* generateReadme: render the table (generateTable throws like
\* generateGrammarTable) and write README.md.  readme() returns after it and
\* the process exits with 0.
GenerateReadme ==
  /\ pc = "p_readme"
  /\ IF TableThrows(manifest)
       THEN Throw /\ UNCHANGED fsWrites
       ELSE /\ fsWrites' = fsWrites \cup {"README"}
            /\ IF mode = "dist"
                 THEN Goto("p_copy") /\ UNCHANGED <<cache, fileHashes, tIdx>>
                 ELSE Exit(0) /\ UNCHANGED <<script, mode, clean, rerun>>
            /\ idx' = idx
  /\ UNCHANGED <<outcome, genCalls, bundleCalls, usage, saved>>
  /\ UNCHANGED fsVars

\* dist, line 186: copy README.md into dist; the process exits with 0.
P_Copy ==
  /\ pc = "p_copy"
  /\ fsWrites' = fsWrites \cup {"distREADME"}
  /\ Exit(0)
  /\ clean' = TRUE
  /\ UNCHANGED <<script, mode, idx, rerun>>
  /\ UNCHANGED <<outcome, genCalls, bundleCalls, usage, saved>>
  /\ UNCHANGED fsVars

\* -------------------------------------------------------- README rendering
\* Texts are sequences of symbols.  A symbol is one character, or a chunk of
\* literal text whose characters play no part in the rendering.

\* Longest template and longest display name explored.
MaxTemplateLen == 4

MaxNameLen == 2

\* The placeholder "<!-- INSERT_LANGS_HERE -->", as two chunks, so that a
\* template may hold a part of it.
Token == <<"<!-- INSERT_LANGS", "_HERE -->">>

TemplateSymbols == {"t", "<!-- INSERT_LANGS", "_HERE -->"}

Templates == SeqsUpTo(TemplateSymbols, MaxTemplateLen)

\* Display names of grammars.json: letters, digits and punctuation.  The
\* symbols "backtick" and "quote" are the characters U+0060 and U+0027.
NameSymbols == {"a", "1", "$", "&", "backtick", "quote"}

DisplayNames == SeqsUpTo(NameSymbols, MaxNameLen)

\* path.dirname(extractPathFromUrl(lexer || parser)) of an entry.
SubPaths == {<<"d">>, <<"d", "$">>}

\* The lists of grammars rendered: none, or one entry.
GrammarLists ==
  {<<>>} \cup {<<[name |-> n, subPath |-> d]>> : n \in DisplayNames, d \in SubPaths}

\* Array.prototype.join("\n")
RECURSIVE Join(_)
Join(lines) ==
  IF lines = <<>> THEN <<>>
  ELSE IF Len(lines) = 1 THEN lines[1]
  ELSE lines[1] \o <<"\n">> \o Join(Tail(lines))

\* The row template: | ${name} | backtick ${subPath} backtick | ${hasLexer} | ${hasParser} |
TableRow(g) ==
  <<"| ">> \o g.name \o <<" | ", "backtick">> \o g.subPath \o <<"backtick", " | + | + |">>

\* generateGrammarTable (generateTable in src/build.mjs): the two header
\* lines and one row per grammar, joined by newlines.
GenerateGrammarTable(grammars) ==
  Join(<< <<"| Language |   Path   | Has Lexer | Has Parser |">>,
          <<"| -------- | -------- | --------- | ---------- |">> >>
       \o [i \in 1..Len(grammars) |-> TableRow(grammars[i])])

\* str has searchValue at index i (counted from 1).
OccursAt(str, searchValue, i) ==
  /\ i + Len(searchValue) - 1 <= Len(str)
  /\ SubSeq(str, i, i + Len(searchValue) - 1) = searchValue

\* String.prototype.indexOf, counted from 1; 0: not found.
IndexOf(str, searchValue) ==
  IF \E i \in 1..Len(str) : OccursAt(str, searchValue, i)
    THEN CHOOSE i \in 1..Len(str) :
           /\ OccursAt(str, searchValue, i)
           /\ \A j \in 1..(i - 1) : ~OccursAt(str, searchValue, j)
    ELSE 0

\* GetSubstitution of ECMA-262 for a string pattern (no capture groups): in
\* the replacement text $$ is a dollar sign, $& the matched text, $ with a
\* backtick the text before the match and $ with a quote the text after it;
\* $ before anything else
\* (a digit too, there being no captures) stands for itself.
RECURSIVE GetSubstitution(_, _, _, _)
GetSubstitution(matched, str, position, replacement) ==
  IF replacement = <<>> THEN <<>>
  ELSE IF /\ replacement[1] = "$"
          /\ Len(replacement) >= 2
          /\ replacement[2] \in {"$", "&", "backtick", "quote"}
    THEN LET c == replacement[2]
             sub == IF c = "$" THEN <<"$">>
                    ELSE IF c = "&" THEN matched
                    ELSE IF c = "backtick" THEN SubSeq(str, 1, position - 1)
                    ELSE SubSeq(str, position + Len(matched), Len(str))
         IN  sub \o GetSubstitution(matched, str, position,
                                    SubSeq(replacement, 3, Len(replacement)))
    ELSE <<replacement[1]>> \o GetSubstitution(matched, str, position, Tail(replacement))

\* String.prototype.replace(searchValue, replaceValue) with two strings: the
\* first occurrence of searchValue gives way to the substitution.
Replace(str, searchValue, replaceValue) ==
  LET pos == IndexOf(str, searchValue) IN
  IF pos = 0 THEN str
  ELSE SubSeq(str, 1, pos - 1)
       \o GetSubstitution(searchValue, str, pos, replaceValue)
       \o SubSeq(str, pos + Len(searchValue), Len(str))

\* populateREADME steps 3-6 (generateReadme in src/build.mjs): read the
\* template, render the table, replace the placeholder, write README.md.
RenderReadme ==
  /\ ~text.written
  /\ text' = [text EXCEPT !.written = TRUE,
                          !.readme = Replace(text.template, Token,
                                             GenerateGrammarTable(text.grammars))]
  /\ UNCHANGED <<dl, rows, scan>>
  /\ UNCHANGED procVars

\* ------------------------------------------------------------------ download
\* One call download(url, dest) (downloadFile in src/unnamed/part_001).  The
\* server is a mapping from URL to the response it gives: a status and, for a
\* redirect, the Location header.  URL 1 is the one download is called with.

\* Number of URLs the server knows.
MaxUrls == 2

Urls == 1..MaxUrls

Statuses == {200, 301, 302, 404}

Servers == [Urls -> [status : Statuses, location : Urls]]

\* Requests followed in one call; a cycle of redirects is followed this far.
MaxRequests == MaxUrls + 2

\* The status is taken for no redirect.
IsRedirect_never(status) == FALSE

\* res.statusCode === 301 || res.statusCode === 302
IsRedirect(status) == status = 301 \/ status = 302

\* download is called: the executor issues https.get(url).
StartDownload(server) ==
  [server |-> server, requested |-> <<1>>, last |-> 0, stream |-> "none",
   settled |-> "pending", netError |-> FALSE]

\* A request is waiting for its response.
Requesting ==
  /\ dl.requested # <<>>
  /\ dl.settled = "pending"
  /\ dl.stream = "none"

\* The response callback of https.get: a redirect requests the Location (by
\* a recursive call whose outcome is passed on, or by calling request again);
\* another status than 200 rejects; 200 opens the file stream and pipes the
\* body into it.
DL_Response ==
  /\ Requesting
  /\ LET res == dl.server[dl.requested[Len(dl.requested)]] IN
     IF IsRedirect(res.status)
       THEN /\ Len(dl.requested) < MaxRequests
            /\ dl' = [dl EXCEPT !.last = res.status,
                                !.requested = Append(@, res.location)]
       ELSE IF res.status # 200
         THEN dl' = [dl EXCEPT !.last = res.status, !.settled = "rejected"]
         ELSE dl' = [dl EXCEPT !.last = res.status, !.stream = "open"]
  /\ UNCHANGED <<text, rows, scan>>
  /\ UNCHANGED procVars

\* The "error" event of the request: reject.
DL_RequestError ==
  /\ Requesting
  /\ dl' = [dl EXCEPT !.settled = "rejected", !.netError = TRUE]
  /\ UNCHANGED <<text, rows, scan>>
  /\ UNCHANGED procVars

\* The "finish" event of the file stream: close and resolve.
DL_StreamFinish ==
  /\ dl.stream = "open"
  /\ dl' = [dl EXCEPT !.stream = "finished", !.settled = "resolved"]
  /\ UNCHANGED <<text, rows, scan>>
  /\ UNCHANGED procVars

\* The "error" event of the file stream: reject.
DL_StreamError ==
  /\ dl.stream = "open"
  /\ dl' = [dl EXCEPT !.stream = "error", !.settled = "rejected"]
  /\ UNCHANGED <<text, rows, scan>>
  /\ UNCHANGED procVars

\* -------------------------------------------------------------------- table
\* The documentation table of a list of grammars: rendered from the manifest
\* entries (generateTable in src/build.mjs, generateGrammarTable in
\* src/unnamed/part_001), or from the listing of each output directory, all
\* rows at once (generateReadme in src/unnamed/part_000 and part_002).

TableNames == {<<"a">>, <<"1">>}

TableBases == {<<"d">>, <<"e">>}

TableLists == SeqsUpTo([name : TableNames, base : TableBases], MaxGrammars)

TableVariants == {"build.mjs", "part_000", "part_002"}

Components == <<"Lexer", "Parser", "Visitor", "Listener">>

\* The files the generator writes for a grammar A, by component.
GeneratedFile(c) == <<"A", c, ".js">>

TokensFile == <<"A", "Lexer", ".tokens">>

\* What fs.readdir finds at OUTPUT_DIR/base: no directory, or its files.
DirListings ==
  {[exists |-> FALSE, files |-> {}]}
  \cup {[exists |-> TRUE, files |-> fs] :
          fs \in {{},
                  {GeneratedFile("Lexer"), TokensFile},
                  {GeneratedFile("Lexer"), GeneratedFile("Parser"), TokensFile},
                  {GeneratedFile("Lexer"), GeneratedFile("Parser"), GeneratedFile("Visitor"),
                   GeneratedFile("Listener"), TokensFile},
                  {GeneratedFile("Parser"), GeneratedFile("Listener")}}}

\* String.prototype.endsWith
EndsWith(p, suffix) ==
  /\ Len(p) >= Len(suffix)
  /\ SubSeq(p, Len(p) - Len(suffix) + 1, Len(p)) = suffix

\* generatedFiles.find((p) => p.endsWith(suffix)); <<>>: undefined.
Find(generatedFiles, suffix) ==
  IF \E p \in generatedFiles : EndsWith(p, suffix)
    THEN CHOOSE p \in generatedFiles : EndsWith(p, suffix)
    ELSE <<>>

\* The suffix each revision looks for, by component.
ComponentSuffix(variant, c) ==
  IF c = "Visitor" /\ variant = "part_000" THEN <<"Vistor", ".js">> ELSE <<c, ".js">>

\* file ? backtick file backtick : ""
Cell(file) == IF file = <<>> THEN <<>> ELSE <<"backtick">> \o file \o <<"backtick">>

\* Array.prototype.join(" | ")
RECURSIVE JoinCells(_)
JoinCells(cells) ==
  IF cells = <<>> THEN <<>>
  ELSE IF Len(cells) = 1 THEN cells[1]
  ELSE cells[1] \o <<" | ">> \o JoinCells(Tail(cells))

\* The row of a grammar in the revisions that list the output directory.
ScanRow(variant, g, generatedFiles) ==
  <<"|">>
  \o JoinCells(<<g.name, <<"backtick">> \o g.base \o <<"backtick">> >>
               \o [k \in 1..Len(Components) |->
                     Cell(Find(generatedFiles, ComponentSuffix(variant, Components[k])))])
  \o <<"|">>

ScanHeader ==
  << <<"| Language | Path | Lexer | Parser | Visitor | Listener |">>,
     <<"| -------- | ---- | ----- | ------ | ------- | -------- |">> >>

\* Promise.all keeps each result at the index of its promise.
ResultIndex_arrival(i, order) == Len(order) + 1

ResultIndex(i, order) == i

\* generateReadme (generateTable) is called with a list of grammars.
StartTable(variant, grammars, dirs) ==
  [variant |-> variant, grammars |-> grammars, dirs |-> dirs,
   pending |-> IF variant = "build.mjs" THEN {} ELSE 1..Len(grammars),
   results |-> [i \in 1..Len(grammars) |-> <<>>],
   order |-> <<>>, table |-> <<>>, phase |-> "running"]

\* generateTable, generateGrammarTable: the rows are made one after another
\* from the manifest entries.
T_GenerateTable ==
  /\ rows.phase = "running"
  /\ rows.variant = "build.mjs"
  /\ rows' = [rows EXCEPT
       !.table = GenerateGrammarTable([i \in 1..Len(rows.grammars) |->
                   [name |-> rows.grammars[i].name, subPath |-> rows.grammars[i].base]]),
       !.phase = "rendered"]
  /\ UNCHANGED <<text, dl, scan>>
  /\ UNCHANGED procVars

\* The fs.readdir of one grammar returns, whichever grammar it is, and the
\* async callback makes the row.
T_Readdir(i) ==
  /\ rows.phase = "running"
  /\ i \in rows.pending
  /\ rows.dirs[rows.grammars[i].base].exists
  /\ rows' = [rows EXCEPT
       !.pending = @ \ {i},
       !.order = Append(@, i),
       !.results[ResultIndex(i, rows.order)] =
          ScanRow(rows.variant, rows.grammars[i], rows.dirs[rows.grammars[i].base].files)]
  /\ UNCHANGED <<text, dl, scan>>
  /\ UNCHANGED procVars

\* The fs.readdir of one grammar fails: Promise.all rejects, and so does
\* generateReadme.
T_ReaddirFails(i) ==
  /\ rows.phase = "running"
  /\ i \in rows.pending
  /\ ~rows.dirs[rows.grammars[i].base].exists
  /\ rows' = [rows EXCEPT !.phase = "failed"]
  /\ UNCHANGED <<text, dl, scan>>
  /\ UNCHANGED procVars

\* Promise.all resolves: header and rows are joined by newlines.
T_Join ==
  /\ rows.phase = "running"
  /\ rows.variant # "build.mjs"
  /\ rows.pending = {}
  /\ rows' = [rows EXCEPT !.table = Join(ScanHeader \o rows.results), !.phase = "rendered"]
  /\ UNCHANGED <<text, dl, scan>>
  /\ UNCHANGED procVars

\* ------------------------------------------------------------- grammar loop
\* The loop over the grammars of a full build, with every asynchronous
\* operation of processGrammar as an event of its own: the creation of the
\* output directory, the checks that the sources exist (src/unnamed/part_000),
\* the generator subprocess, and what follows it (relocation and bundling in
\* src/build.mjs and src/unnamed/part_001, the copy of the JavaScript
\* directory in src/unnamed/part_002).  Calls of src/unnamed/part_001 are the
\* ones that miss the cache.

ScanVariants == {"build.mjs", "part_000", "part_001", "part_002"}

\* processGrammar awaits fs.mkdir(outputDir, {recursive: true}).
AwaitsMkdir(variant) == variant # "part_000"

\* processGrammar has steps after the generator.
HasPostSteps(variant) == variant # "part_000"

\* The loop goes on without waiting for the call it made.
Awaited_never(s, i) == TRUE

\* for (const grammar of grammars) await processGrammar(grammar): the next
\* iteration begins when the promise of the last call has resolved.
Awaited(s, i) == IF i = 1 THEN TRUE ELSE s.calls[i - 1] = "returned"

\* The process starts the loop over n grammars.
StartScan(variant, n, mkdirOk, valid, genOk) ==
  [variant |-> variant, n |-> n, mkdirOk |-> mkdirOk, valid |-> valid, genOk |-> genOk,
   next |-> 1,
   calls |-> [i \in 1..n |-> "notStarted"],
   mkdir |-> [i \in 1..n |-> "none"],
   genAt |-> [i \in 1..n |-> "none"],
   running |-> {},
   log |-> <<>>,
   loop |-> "running"]

\* exec("java", ...): the generator subprocess of call i is spawned; genAt
\* keeps how far the creation of the output directory had come by then.
Spawn(s, i) ==
  [s EXCEPT !.calls[i] = "generator", !.running = @ \cup {i}, !.genAt[i] = s.mkdir[i]]

\* An iteration of the loop: processGrammar is called and runs up to its
\* first await, having issued fs.mkdir.
S_Start ==
  /\ scan.loop = "running"
  /\ scan.next <= scan.n
  /\ Awaited(scan, scan.next)
  /\ scan' = [scan EXCEPT
       !.next = @ + 1,
       !.log = Append(@, scan.next),
       !.mkdir[scan.next] = "issued",
       !.calls[scan.next] = IF AwaitsMkdir(scan.variant) THEN "mkdir" ELSE "exists"]
  /\ UNCHANGED <<text, dl, rows>>
  /\ UNCHANGED procVars

\* fs.mkdir of call i succeeds; a call that awaits it goes on to the generator.
S_MkdirDone(i) ==
  /\ scan.loop = "running"
  /\ scan.mkdir[i] = "issued"
  /\ scan.mkdirOk[i]
  /\ LET done == [scan EXCEPT !.mkdir[i] = "done"] IN
     scan' = IF scan.calls[i] = "mkdir" THEN Spawn(done, i) ELSE done
  /\ UNCHANGED <<text, dl, rows>>
  /\ UNCHANGED procVars

\* fs.mkdir of call i fails: a call that awaits it throws, and the loop with
\* it; where nothing awaits it the rejection is unhandled and ends the
\* process, wherever the call has got to.
S_MkdirFails(i) ==
  /\ scan.loop = "running"
  /\ scan.mkdir[i] = "issued"
  /\ ~scan.mkdirOk[i]
  /\ scan' = IF scan.calls[i] = "mkdir"
               THEN [scan EXCEPT !.mkdir[i] = "failed", !.calls[i] = "thrown",
                                 !.loop = "failed"]
               ELSE [scan EXCEPT !.mkdir[i] = "failed", !.loop = "crashed"]
  /\ UNCHANGED <<text, dl, rows>>
  /\ UNCHANGED procVars

\* await Promise.all(pathStrings.map(exists)) of call i returns: an entry
\* with a missing source is skipped, else the generator is spawned.
S_ExistsDone(i) ==
  /\ scan.loop = "running"
  /\ scan.calls[i] = "exists"
  /\ scan' = IF scan.valid[i] THEN Spawn(scan, i) ELSE [scan EXCEPT !.calls[i] = "returned"]
  /\ UNCHANGED <<text, dl, rows>>
  /\ UNCHANGED procVars

\* The "close" event of the generator of call i: exit code 0 resolves exec,
\* another one rejects it and processGrammar throws.
S_GeneratorClose(i) ==
  /\ scan.loop = "running"
  /\ i \in scan.running
  /\ scan' = IF scan.genOk[i]
               THEN [scan EXCEPT !.running = @ \ {i},
                                 !.calls[i] = IF HasPostSteps(scan.variant)
                                                THEN "post" ELSE "returned"]
               ELSE [scan EXCEPT !.running = @ \ {i}, !.calls[i] = "thrown",
                                 !.loop = "failed"]
  /\ UNCHANGED <<text, dl, rows>>
  /\ UNCHANGED procVars

\* The steps after the generator of call i are through: processGrammar returns.
S_PostDone(i) ==
  /\ scan.loop = "running"
  /\ scan.calls[i] = "post"
  /\ scan' = [scan EXCEPT !.calls[i] = "returned"]
  /\ UNCHANGED <<text, dl, rows>>
  /\ UNCHANGED procVars

\* The loop is through.
S_LoopEnd ==
  /\ scan.loop = "running"
  /\ scan.next > scan.n
  /\ Awaited(scan, scan.next)
  /\ scan' = [scan EXCEPT !.loop = "done"]
  /\ UNCHANGED <<text, dl, rows>>
  /\ UNCHANGED procVars

\* ------------------------------------------------------------ environment
\* Between two processes the user edits the working copy.

\* The parser sources the manifest names.
ManifestPaths == {ParserPath(manifest[i]) : i \in 1..Len(manifest)} \ (DanglingPaths \cup {NoPath})

\* A change of the working copy; what the last process reported is no longer
\* looked at.
Env(changed) ==
  /\ pc = "idle"
  /\ mirror
  /\ changed
  /\ clean' = FALSE
  /\ Forget
  /\ exitCode' = -1
  /\ saved' = 0
  /\ UNCHANGED <<script, pc, cache, fileHashes, tIdx>>
  /\ UNCHANGED auxVars

\* A grammar source gets other contents.
EditSource(p) ==
  /\ Env(src[p] # 0)
  /\ src' = [src EXCEPT ![p] = IF src[p] = 1 THEN 2 ELSE 1]
  /\ UNCHANGED <<mirror, manifest, gen, dist, cacheDisk, jar>>

\* The output directory is emptied.
DeleteOutputs ==
  /\ Env(\E f \in OutFiles : dist[f] # NoFile)
  /\ dist' = [f \in OutFiles |-> NoFile]
  /\ UNCHANGED <<mirror, manifest, src, gen, cacheDisk, jar>>

\* Cache files that are JSON but no mapping of well-formed entries.
DamagedCaches ==
  {JsonStringify(JNull)} \cup
  {JsonStringify(Obj([n \in {manifest[i].name} |-> EntryNoFiles])) : i \in 1..Len(manifest)}

\* The cache file is overwritten with damaged contents.
DamageCache(file) ==
  /\ Env(script = "cached" /\ cacheDisk # file)
  /\ cacheDisk' = file
  /\ UNCHANGED <<mirror, manifest, src, gen, dist, jar>>

\* ------------------------------------------------------------ specification

\* A step of the cached revision's process.
CachedStep ==
  \/ Build
  \/ BD_Setup
  \/ BD_Jar
  \/ BD_Download
  \/ UpdateGrammarsRepo
  \/ BD_ReadManifest
  \/ BD_Loop
  \/ PG_Paths
  \/ PG_CacheCheck
  \/ PG_Mkdir
  \/ PG_Generate
  \/ PG_Bundle
  \/ PG_UpdateCache
  \/ SaveOpen
  \/ SaveWrite
  \/ BD_Pkg
  \/ PopulateREADME
  \/ BD_Copy

\* A step of the plain revision's process.
PlainStep ==
  \/ P_Commands
  \/ SD_Mkdir
  \/ SD_Jar
  \/ SD_Download
  \/ SD_Repo
  \/ P_ReadManifest
  \/ P_Loop
  \/ PP_Paths
  \/ PP_Generate
  \/ PP_Bundle
  \/ P_Pkg
  \/ GenerateReadme
  \/ P_Copy

EnvStep ==
  \/ \E p \in ManifestPaths : EditSource(p)
  \/ DeleteOutputs
  \/ \E file \in DamagedCaches : DamageCache(file)

\* Spec: full builds of the cached revision, one after the other, each of
\* which may be terminated, with changes of the working copy in between.
InitCached == Init /\ script = "cached"

Next ==
  \/ StartRun("dist")
  \/ Kill
  \/ CachedStep
  \/ EnvStep

Spec == InitCached /\ [][Next]_vars

\* SpecCli: processes of either revision in any mode, one after the other.
NextCli ==
  \/ \E m \in Modes : StartRun(m)
  \/ CachedStep
  \/ PlainStep

SpecCli == Init /\ [][NextCli]_vars

\* SpecReadme: one rendering of the README, of any template and grammar list.
InitReadme ==
  /\ InitProcess
  /\ dl = NoDownload
  /\ rows = NoRows
  /\ scan = NoScan
  /\ text \in [template : Templates, grammars : GrammarLists, written : {FALSE}, readme : {<<>>}]

NextReadme == RenderReadme

SpecReadme == InitReadme /\ [][NextReadme]_vars

\* SpecDownload: one call of download, against any server.
InitDownload ==
  /\ InitProcess
  /\ text = NoText
  /\ rows = NoRows
  /\ scan = NoScan
  /\ dl \in {StartDownload(server) : server \in Servers}

NextDownload ==
  \/ DL_Response
  \/ DL_RequestError
  \/ DL_StreamFinish
  \/ DL_StreamError

SpecDownload == InitDownload /\ [][NextDownload]_vars

\* SpecTable: one rendering of the table, of any list of grammars and any
\* output directories.  The revisions that render from the manifest do not
\* look at the output directories.
InitTable ==
  /\ InitProcess
  /\ text = NoText
  /\ dl = NoDownload
  /\ scan = NoScan
  /\ rows \in {StartTable(variant, grammars, dirs) :
                 variant \in TableVariants, grammars \in TableLists,
                 dirs \in [TableBases -> DirListings]}
  /\ rows.variant = "build.mjs" => \A b \in TableBases : ~rows.dirs[b].exists

NextTable ==
  \/ T_GenerateTable
  \/ \E i \in 1..MaxGrammars : T_Readdir(i)
  \/ \E i \in 1..MaxGrammars : T_ReaddirFails(i)
  \/ T_Join

SpecTable == InitTable /\ [][NextTable]_vars

\* SpecScan: the grammar loop of one full build, of any revision, with any
\* outcome of each operation.  Only src/unnamed/part_000 checks that the
\* sources exist.
InitScan ==
  /\ InitProcess
  /\ text = NoText
  /\ dl = NoDownload
  /\ rows = NoRows
  /\ \E n \in 0..MaxGrammars :
       scan \in {StartScan(variant, n, mkdirOk, valid, genOk) :
                   variant \in ScanVariants,
                   mkdirOk \in [1..n -> BOOLEAN],
                   valid \in [1..n -> BOOLEAN],
                   genOk \in [1..n -> BOOLEAN]}
  /\ scan.variant # "part_000" => \A i \in 1..scan.n : scan.valid[i]

NextScan ==
  \/ S_Start
  \/ \E i \in 1..scan.n : S_MkdirDone(i)
  \/ \E i \in 1..scan.n : S_MkdirFails(i)
  \/ \E i \in 1..scan.n : S_ExistsDone(i)
  \/ \E i \in 1..scan.n : S_GeneratorClose(i)
  \/ \E i \in 1..scan.n : S_PostDone(i)
  \/ S_LoopEnd

SpecScan == InitScan /\ [][NextScan]_vars

\* ------------------------------------------------------------------ claims

\* The artifacts a grammar is expected to have: one file per declared
\* component, named after the component in lower case, in its output
\* directory.
ExpectedOutputFiles(g) ==
  {<<OutputDir(g), "lexer">> : x \in {y \in {1} : Truthy(g.lexer)}}
  \cup {<<OutputDir(g), "parser">> : x \in {y \in {1} : Truthy(g.parser)}}

\* The cache value c holds an entry with a files mapping for grammar g.
ValidEntry(c, g) ==
  /\ c.kind = "obj"
  /\ g.name \in DOMAIN c.map
  /\ c.map[g.name].hasFiles

\* The step is not the termination of the process from outside.
NotKilled == exitCode' # 137

\* The precondition of C1 for the grammar being processed: an entry, every
\* fresh digest recorded in it for the same path, every expected output there.
C1_Pre ==
  /\ ValidEntry(cache, cur)
  /\ \A p \in DOMAIN fileHashes :
       /\ p \in DOMAIN cache.map[cur.name].files
       /\ cache.map[cur.name].files[p] = fileHashes[p]
  /\ \A f \in ExpectedOutputFiles(cur) : dist[f] # NoFile

\* C1 (cache-hit skip): when processGrammar comes to its cache check and the
\* cache holds an entry for the grammar, every fresh digest equals the digest
\* recorded for the same path and every expected output file exists, then
\* processGrammar returns (the next step is the saveCache of the loop) having
\* started no generator, made no bundler call, and left the cache, the
\* generated files and the artifacts as they were.
C1_CacheHitSkip ==
  [][(pc = "pg_check" /\ C1_Pre /\ NotKilled)
       => /\ pc' = "save_open"
          /\ genCalls' = genCalls
          /\ bundleCalls' = bundleCalls
          /\ cache' = cache
          /\ gen' = gen
          /\ dist' = dist]_vars

\* A grammar was skipped on a cache hit, with the precondition of C1 true.
C1_Witness ==
  /\ pc = "save_open"
  /\ outcome[idx] = "hit"
  /\ C1_Pre
  /\ genCalls = 0
  /\ bundleCalls = 0

\* The precondition of C2: the grammar has a cache entry, and for some
\* current source file the recorded digest differs from the fresh one or is
\* absent.
C2_Pre ==
  /\ cache.kind = "obj"
  /\ cur.name \in DOMAIN cache.map
  /\ \/ ~cache.map[cur.name].hasFiles
     \/ \E p \in DOMAIN fileHashes :
          \/ p \notin DOMAIN cache.map[cur.name].files
          \/ cache.map[cur.name].files[p] # fileHashes[p]

\* C2 (cache invalidation on source change): when processGrammar comes to its
\* cache check and the digest recorded in the grammar's entry for some current
\* source file differs from the fresh digest or is absent, processGrammar goes
\* on to the generator; and in the bundling loop every declared component
\* whose generated file exists gets one bundler call.
C2_Invalidation ==
  [][/\ (pc = "pg_check" /\ C2_Pre /\ NotKilled) => pc' = "pg_mkdir"
     /\ (/\ pc = "pg_bundle"
         /\ tIdx <= Len(FileTypes(cur))
         /\ gen[MainFile(cur, FileTypes(cur)[tIdx])] # <<>>
         /\ NotKilled) => bundleCalls' = bundleCalls + 1]_vars

\* C3 (durable per-grammar cache): when a full build was terminated after the
\* loop iterations of grammars 1..saved had finished, the cache file parses
\* and holds a valid entry for each of these grammars.
C3_DurableCache ==
  (pc = "idle" /\ exitCode = 137 /\ saved >= 1)
    => /\ JsonParses(cacheDisk)
       /\ \A k \in 1..saved : ValidEntry(LoadCache(cacheDisk), manifest[k])

\* C4 (idempotent re-run): a full build started after a successful full build,
\* with sources, outputs and cache file as that build left them, starts no
\* generator and makes no bundler call.
C4_IdempotentRerun == rerun => (genCalls = 0 /\ bundleCalls = 0)

\* The full build has ended while grammar idx was being processed.
C5_Failed ==
  /\ pc = "idle"
  /\ mode = "dist"
  /\ idx >= 1
  /\ outcome[idx] = "none"

\* C5 (abort on first failure): when the full build has ended in the
\* processing of its k-th grammar, the exit status is non-zero, no later
\* grammar was processed, neither package.json nor a README was written, and
\* the artifacts and the persisted cache entries of grammars 1..k-1 are on
\* disk.
C5_AbortOnFirstFailure ==
  C5_Failed
    => /\ exitCode > 0
       /\ \A j \in (idx + 1)..Len(manifest) : outcome[j] = "none"
       /\ fsWrites \cap {"pkg", "README", "distREADME"} = {}
       /\ \A j \in 1..(idx - 1) :
            /\ outcome[j] \in {"hit", "built"}
            /\ \A f \in ExpectedOutputFiles(manifest[j]) : dist[f] # NoFile
            /\ JsonParses(cacheDisk)
            /\ ValidEntry(LoadCache(cacheDisk), manifest[j])

\* The second grammar of a manifest failed after the first was built.
C5_Witness ==
  /\ C5_Failed
  /\ idx = 2
  /\ outcome[1] = "built"
  /\ exitCode = 1
  /\ genCalls = 2

\* C6 (mode selection): a process started with a mode other than "dist" and
\* "readme" has, when it ends, printed the usage, exited with status 1, and
\* written nothing and started no subprocess.
C6_ModeSelection ==
  (pc = "idle" /\ mode \notin {"dist", "readme", "none"})
    => /\ usage
       /\ exitCode = 1
       /\ fsWrites = {}
       /\ genCalls = 0
       /\ bundleCalls = 0

\* The symbols of a text.
Symbols(str) == {str[i] : i \in 1..Len(str)}

\* The text with every occurrence of tok replaced by the text by, as it is.
RECURSIVE ReplaceAllVerbatim(_, _, _)
ReplaceAllVerbatim(str, tok, by) ==
  IF \E i \in 1..Len(str) : OccursAt(str, tok, i)
    THEN LET pos == CHOOSE i \in 1..Len(str) :
                      /\ OccursAt(str, tok, i)
                      /\ \A j \in 1..(i - 1) : ~OccursAt(str, tok, j)
         IN  SubSeq(str, 1, pos - 1) \o by
             \o ReplaceAllVerbatim(SubSeq(str, pos + Len(tok), Len(str)), tok, by)
    ELSE str

\* C7 (template substitution covers all occurrences): the README written is
\* the template with every occurrence of the placeholder replaced by the
\* table and all other text unchanged (stated for tables without a dollar
\* sign, where the replacement text stands for itself).
C7_AllOccurrences ==
  (text.written /\ "$" \notin Symbols(GenerateGrammarTable(text.grammars)))
    => text.readme = ReplaceAllVerbatim(text.template, Token,
                                        GenerateGrammarTable(text.grammars))

\* C8 (verbatim table insertion): in the README written the text standing in
\* the place of the (first) placeholder of the template is the table,
\* character for character.
C8_VerbatimTable ==
  (text.written /\ \E i \in 1..Len(text.template) : OccursAt(text.template, Token, i))
    => \E i \in 1..Len(text.template) :
         /\ OccursAt(text.template, Token, i)
         /\ \A j \in 1..(i - 1) : ~OccursAt(text.template, Token, j)
         /\ text.readme = SubSeq(text.template, 1, i - 1)
                          \o GenerateGrammarTable(text.grammars)
                          \o SubSeq(text.template, i + Len(Token), Len(text.template))

\* What a process in mode "readme" leaves alone: it starts no generator, makes
\* no bundler call, and the cache file, the generated files and the artifacts
\* stay as they are.
C9_Frame ==
  /\ genCalls' = 0
  /\ bundleCalls' = 0
  /\ cacheDisk' = cacheDisk
  /\ gen' = gen
  /\ dist' = dist

\* C9 (documentation-only mode), as the code has it: a process in mode
\* "readme" leaves generator, bundler, cache file and artifacts alone; the
\* files it writes are README.md and those of the dependency setup: the
\* mirror of the grammar repository, and in src/build.mjs the generator jar
\* when it is absent.
C9_ReadmeMode ==
  [][mode' = "readme"
       => /\ C9_Frame
          /\ fsWrites' \subseteq {"README", "dir", "mirror", "jar"}
          /\ ("jar" \in fsWrites' => script = "plain")]_vars

\* C9 as stated: the only file a process in mode "readme" writes is README.md
\* (the creation of directories is not counted).
C9_OnlyReadmeWritten ==
  [][mode' = "readme"
       => /\ C9_Frame
          /\ (fsWrites' \ {"dir"}) \subseteq {"README"}]_vars

\* A process in mode "readme" has written README.md, after fetching into the
\* mirror, with artifacts of an earlier full build on disk.
C9_Witness ==
  /\ pc = "idle"
  /\ mode = "readme"
  /\ exitCode = 0
  /\ {"README", "mirror"} \subseteq fsWrites
  /\ \E f \in OutFiles : dist[f] # NoFile

\* The cache of the process is no mapping, or holds for the grammar being
\* processed an entry without a files mapping.
C10_Damaged ==
  \/ cache.kind # "obj"
  \/ cur.name \in DOMAIN cache.map /\ ~cache.map[cur.name].hasFiles

\* C10 (cache corruption is non-fatal): when processGrammar comes to its cache
\* check with a damaged cache, the build does not fail: the grammar counts as
\* not cached and processGrammar goes on to rebuild it.
C10_CorruptionNonFatal ==
  [][(pc = "pg_check" /\ C10_Damaged /\ NotKilled) => pc' = "pg_mkdir"]_vars

\* The manifest entry has neither a lexer nor a parser source location.
NoSource(g) == ~Truthy(g.lexer) /\ ~Truthy(g.parser)

\* A process of mode "dist" or "readme" has ended.
C11_Ended ==
  /\ pc = "idle"
  /\ mode \in {"dist", "readme"}
  /\ exitCode # -1

\* C11 (invalid manifest entries), as the code has it: a manifest entry with
\* neither a lexer nor a parser source location is fatal.  A process whose
\* manifest holds such an entry ends with a failure status, has completed no
\* grammar from that entry on, and has written no README.
C11_NoSourceIsFatal ==
  C11_Ended
    => \A k \in 1..Len(manifest) :
         NoSource(manifest[k])
           => /\ exitCode = 1
              /\ "README" \notin fsWrites
              /\ \A j \in k..Len(outcome) : outcome[j] = "none"

\* C11 as stated: processGrammar leaves an entry without a source location
\* out, and the loop goes on with the next entry.
C11_InvalidEntriesExcluded ==
  [][(pc \in {"pg_paths", "pp_paths"} /\ NoSource(cur))
       => pc' \in {"bd_loop", "p_loop"}]_vars

\* A full build of a manifest whose second entry has no source location has
\* built the first entry and failed on the second.
C11_Witness ==
  /\ C11_Ended
  /\ mode = "dist"
  /\ Len(manifest) = 2
  /\ NoSource(manifest[2])
  /\ idx = 2
  /\ outcome[1] = "built"
  /\ exitCode = 1

\* C16 (output directory mirrors the base directory): processGrammar takes
\* every manifest entry that has a source location and whose source files are
\* there, a lexer-only entry too, past the computation of its directories;
\* and every artifact it writes lies in the output directory of the entry's
\* base directory, the directory the generator is run in.
C16_OutputDirMirrorsBase ==
  [][/\ (/\ pc = "pg_paths"
         /\ ~NoSource(cur)
         /\ \A p \in GrammarPaths(cur) : src[p] # 0
         /\ NotKilled) => pc' = "pg_check"
     /\ (pc = "pg_bundle" /\ NotKilled)
          => \A f \in OutFiles : dist'[f] # dist[f] => f[1] = CwdDir(cur)]_vars

\* The generated file <GrammarName><Component>.js of the grammar being
\* processed is there, and the component's artifact is the bundle of it.
C17_Bundled(type) ==
  /\ gen[<<CwdDir(cur), cur.name, type>>] # <<>>
  /\ dist[<<OutputDir(cur), IF type = "Lexer" THEN "lexer" ELSE "parser">>]
       = [name |-> cur.name, type |-> type, hashes |-> gen[<<CwdDir(cur), cur.name, type>>]]

\* C17 (cache entry only on success): no step of processGrammar before its
\* last one changes the cache, in memory or on disk, and a failing step leaves
\* the cache file as it is; the last step, which writes the entry, is taken
\* only after the generator has run and the artifact of every declared
\* component has been bundled from its output, and it records the fresh
\* digests under the grammar's name.
C17_CacheEntryOnlyOnSuccess ==
  [][/\ (/\ pc \in {"pg_paths", "pg_check", "pg_mkdir", "pg_generate", "pg_bundle"}
         /\ NotKilled)
          => /\ cacheDisk' = cacheDisk
             /\ pc' # "idle" => cache' = cache
     /\ (pc = "pg_update" /\ NotKilled)
          => /\ genCalls >= 1
             /\ Truthy(cur.lexer) => C17_Bundled("Lexer")
             /\ Truthy(cur.parser) => C17_Bundled("Parser")
             /\ cacheDisk' = cacheDisk
             /\ cache' = Obj(Put(cache.map, cur.name, Entry(fileHashes)))]_vars

\* The first grammar failed in its second bundler call, and the cache file
\* holds no entry.
C17_Witness ==
  /\ C5_Failed
  /\ idx = 1
  /\ genCalls = 1
  /\ bundleCalls = 2
  /\ cacheDisk # FileAbsent => LoadCache(cacheDisk).map = <<>>
  /\ exitCode = 1

\* C19 (cache hits never keep stale artifacts): whenever processGrammar has
\* taken the cache-hit path for a grammar, every expected artifact of the
\* grammar on disk is a bundle of this grammar's generated files, generated
\* from sources with the digests the cache entry records, which are the
\* current ones.
C19_HitsNotStale ==
  (pc = "save_open" /\ outcome[idx] = "hit")
    => /\ cache.map[cur.name].files = fileHashes
       /\ \A f \in ExpectedOutputFiles(cur) :
            /\ dist[f].name = cur.name
            /\ dist[f].hashes = fileHashes

\* C20 (cache entries are per grammar): after a successful full build the
\* cache file holds for every manifest entry an entry that records the digests
\* of that manifest entry's own source files.
C20_EntriesPerGrammar ==
  (pc = "idle" /\ mode = "dist" /\ exitCode = 0)
    => \A j \in 1..Len(manifest) :
         /\ ValidEntry(LoadCache(cacheDisk), manifest[j])
         /\ LoadCache(cacheDisk).map[manifest[j].name].files
              = [p \in GrammarPaths(manifest[j]) |-> Sha256Hex(src[p])]

\* From URL url on the server answers n requests in a row with a redirect.
RECURSIVE C14_Redirects(_, _, _)
C14_Redirects(server, url, n) ==
  IF n = 0 THEN TRUE
  ELSE /\ server[url].status \in {301, 302}
       /\ C14_Redirects(server, server[url].location, n - 1)

\* The chain of redirects that starts at URL 1 is a cycle.
C14_Cycle == C14_Redirects(dl.server, 1, MaxUrls)

\* C14 (download outcome): the requests made are URL 1 and then the Location
\* of each 301 or 302 response in turn; download has resolved exactly when the
\* last status was 200 and the file stream has finished, rejects on every last
\* status other than 200, 301 and 302, and rejects otherwise only on an error
\* event of the file stream or of a request; on a cycle of redirects it
\* neither resolves nor rejects as long as every request gets its response.
C14_DownloadOutcome ==
  dl.requested # <<>>
    => /\ dl.requested[1] = 1
       /\ \A i \in 1..(Len(dl.requested) - 1) :
            /\ dl.server[dl.requested[i]].status \in {301, 302}
            /\ dl.requested[i + 1] = dl.server[dl.requested[i]].location
       /\ dl.settled = "resolved" <=> (dl.last = 200 /\ dl.stream = "finished")
       /\ dl.last \notin {0, 200, 301, 302} => dl.settled = "rejected"
       /\ dl.settled = "rejected"
            => \/ dl.last \notin {0, 200, 301, 302}
               \/ dl.stream = "error"
               \/ dl.netError
       /\ (C14_Cycle /\ ~dl.netError) => dl.settled = "pending"

\* A redirect was followed to a URL that answered 200, and download resolved.
C14_Witness ==
  /\ Len(dl.requested) = 2
  /\ dl.requested[2] # 1
  /\ dl.last = 200
  /\ dl.settled = "resolved"

\* C14 as stated: once download has settled, it has resolved exactly when the
\* last status was 200.
C14_ResolvesIffLast200 ==
  dl.settled # "pending" => (dl.settled = "resolved" <=> dl.last = 200)

\* String.prototype.split(sep), sep being one symbol.
RECURSIVE C12_Split(_, _)
C12_Split(str, sep) ==
  IF \E i \in 1..Len(str) : str[i] = sep
    THEN LET i == CHOOSE i \in 1..Len(str) :
                    str[i] = sep /\ \A j \in 1..(i - 1) : str[j] # sep
         IN  <<SubSeq(str, 1, i - 1)>> \o C12_Split(SubSeq(str, i + 1, Len(str)), sep)
    ELSE <<str>>

\* The lines of the table rendered.
C12_Lines == C12_Split(rows.table, "\n")

\* The row of the i-th grammar of the list.
C12_RowOf(i) ==
  IF rows.variant = "build.mjs"
    THEN TableRow([name |-> rows.grammars[i].name, subPath |-> rows.grammars[i].base])
    ELSE ScanRow(rows.variant, rows.grammars[i], rows.dirs[rows.grammars[i].base].files)

\* C12 (table shape and order): a table rendered for a list of n grammars has
\* the two header lines and then exactly n rows, the i-th of them the row of
\* the i-th grammar, in whichever order the rows were made.
C12_TableShapeAndOrder ==
  rows.phase = "rendered"
    => /\ Len(C12_Lines) = 2 + Len(rows.grammars)
       /\ SubSeq(C12_Lines, 1, 2)
            = IF rows.variant = "build.mjs"
                THEN << <<"| Language |   Path   | Has Lexer | Has Parser |">>,
                        <<"| -------- | -------- | --------- | ---------- |">> >>
                ELSE ScanHeader
       /\ \A i \in 1..Len(rows.grammars) : C12_Lines[2 + i] = C12_RowOf(i)

\* Two different grammars, the row of the second made before the row of the
\* first, and the table rendered.
C12_Witness ==
  /\ rows.phase = "rendered"
  /\ rows.variant = "part_000"
  /\ Len(rows.grammars) = 2
  /\ rows.grammars[1] # rows.grammars[2]
  /\ rows.order = <<2, 1>>

\* The columns of a row of the revisions that list the output directory.
C15_Columns(row) == C12_Split(SubSeq(row, 2, Len(row) - 1), " | ")

\* C15 (component columns reflect generated files): in the revisions that
\* render the table from the output directories, the column of a component in
\* the row of a grammar is non-empty exactly when the output directory of the
\* grammar has a file whose name ends with the name of the component and .js.
C15_ColumnsReflectFiles ==
  (rows.phase = "rendered" /\ rows.variant # "build.mjs")
    => \A i \in 1..Len(rows.grammars) : \A k \in 1..Len(Components) :
         C15_Columns(C12_Lines[2 + i])[2 + k] # <<>>
           <=> \E p \in rows.dirs[rows.grammars[i].base].files :
                 EndsWith(p, <<Components[k], ".js">>)

\* C13 (sequential grammar builds): at most one generator subprocess runs at
\* any time, the grammars are started in the order of the list, and a grammar
\* is started only when the call of processGrammar for the grammar before it
\* has returned, its generator and the steps after it being through.
C13_SequentialBuilds ==
  /\ Cardinality(scan.running) <= 1
  /\ scan.log = [k \in 1..Len(scan.log) |-> k]
  /\ \A i \in 2..Len(scan.calls) :
       scan.calls[i] # "notStarted"
         => /\ scan.calls[i - 1] = "returned"
            /\ (i - 1) \notin scan.running

\* The generator of the second grammar runs, after the one of the first.
C13_Witness ==
  /\ scan.n >= 2
  /\ scan.genAt[1] # "none"
  /\ scan.calls[1] = "returned"
  /\ scan.running = {2}

\* C18 (output directory before generator): when the generator of a grammar
\* is spawned the creation of its output directory has succeeded, whatever
\* the order of the events; and a creation that fails makes processGrammar
\* throw, the generator never having been spawned.
C18_OutputDirBeforeGenerator ==
  \A i \in 1..Len(scan.calls) :
    /\ scan.genAt[i] \in {"none", "done"}
    /\ scan.mkdir[i] = "failed" => (scan.calls[i] = "thrown" /\ scan.genAt[i] = "none")

\* C21 (no reuse of an incomplete generator download): a dependency setup
\* that finds an unfinished jar at the destination does not go on with it,
\* and every generator subprocess is started with a completely downloaded jar.
C21_NoIncompleteJarReuse ==
  [][/\ (pc \in {"bd_jar", "sd_jar"} /\ jar = "partial" /\ NotKilled)
          => pc' \notin {"bd_repo", "sd_repo"}
     /\ genCalls' = genCalls + 1 => jar = "complete"]_vars

====
